---------------------------- MODULE Spec2Model ----------------------------
(***************************************************************************)
(* The "Space Clockwork" engine of src/index.js: a tree of rotating        *)
(* branches (makeBranch / addChildren / updateBranch), the redux reducer   *)
(* that holds it, and the three event sources that dispatch to the store   *)
(* (the animation frame loop, mousemove and click).                        *)
(*                                                                         *)
(* Number representation.  The program computes in IEEE doubles; the model *)
(* computes in fixed point:                                                *)
(*   - degrees and the speed are counted in 1/AngleScale units;            *)
(*   - canvas coordinates and lengths are counted in 1/PosScale pixels;    *)
(*   - radians are counted in 1/RadScale units;                            *)
(*   - cos and sin results are counted in 1/TrigScale units;               *)
(*   - window sizes, pointer coordinates and rotationChange are integers.  *)
(* The inputs the model draws (window sizes, pointer positions, supplied   *)
(* speeds) are chosen so that every division and square root of the        *)
(* reducer is exact in both representations: rotations, speeds and lengths *)
(* are then the program's own values.  cos and sin are the rational        *)
(* approximation of Bhaskara I (absolute error below 0.002), so that the   *)
(* coordinates are the program's within 2 pixels.                          *)
(***************************************************************************)
EXTENDS Integers, Sequences, FiniteSets, TLC

VARIABLES
    state,      \* the store's state: an Immutable Map, here a function from keys to values
    random,     \* the state of the random source `random`
    phase,      \* position of the main script: "created" before line 115, "running" after line 174
    last,       \* the action the store dispatched last (<<>> before the first dispatch)
    ticks,      \* number of NEXT_FRAME actions dispatched so far
    inits       \* number of INIT actions dispatched after the first one

vars == <<state, random, phase, last, ticks, inits>>

-----------------------------------------------------------------------------
(* Bounds of the model *)

MaxTicks == 2
MaxInits == 1

(* The seeds of the random source, the window sizes (innerWidth,           *)
(* innerHeight) and the pointer positions, as offsets from the window's    *)
(* centre, that the model draws from.                                      *)
Seeds == {36}
Windows == {<<1200, 1200>>, <<1200, 800>>}
PointerOffsets == {<<-300, -400>>, <<0, 0>>, <<100, 0>>, <<0, 400>>}

-----------------------------------------------------------------------------
(* Fixed-point scales *)

AngleScale == 4
PosScale == 840
RadScale == 10000
TrigScale == 1000

(* Math.PI, in 1/RadScale units *)
Pi == 31416

(* Division of doubles, exact on the inputs of the model; the quotient is  *)
(* rounded towards zero otherwise.                                         *)
Abs(a) == IF a < 0 THEN -a ELSE a
Sign(a) == IF a < 0 THEN -1 ELSE 1
Div(a, b) == Sign(a) * Sign(b) * (Abs(a) \div Abs(b))

(* Math.sqrt on a non-negative integer: the integer square root *)
Sqrt(n) == CHOOSE r \in 0..2000 : r * r <= n /\ n < (r + 1) * (r + 1)

(* radians(degrees) of the degrees-radians package: degrees * PI / 180 *)
radians(deg) == Div(deg * Pi, 180 * AngleScale)

(* Math.sin on [0, PI]:  16 x (PI - x) / (5 PI^2 - 4 x (PI - x)) *)
SinHalf(x) ==
    LET q == (x * (Pi - x)) \div 1000
        d == (5 * ((Pi * Pi) \div 1000)) \div 4 - q
    IN  (TrigScale * 4 * q) \div d

MathSin(x) ==
    LET r == x % (2 * Pi)
    IN  IF r <= Pi THEN SinHalf(r) ELSE -SinHalf(r - Pi)

MathCos(x) == MathSin(x + (Pi \div 2))

-----------------------------------------------------------------------------
(* Immutable Map operations used by the reducer *)

EmptyMap == <<>>
Has(m, k) == k \in DOMAIN m
MapMerge(m, obj) ==
    [k \in DOMAIN m \cup DOMAIN obj |-> IF k \in DOMAIN obj THEN obj[k] ELSE m[k]]
MapSet(m, k, v) == MapMerge(m, [x \in {k} |-> v])

-----------------------------------------------------------------------------
(* The random source: random-js over a stub engine, a linear congruential  *)
(* generator.  Every draw advances the engine by one step.                 *)

NextRandom(r) == (r * 75 + 74) % 65537

integer(min, max, r) ==
    [value |-> min + (NextRandom(r) % (max - min + 1)), random |-> NextRandom(r)]
die(sides, r) == integer(1, sides, r)
pick(array, r) ==
    LET i == integer(0, Len(array) - 1, r)
    IN  [value |-> array[i.value + 1], random |-> i.random]

-----------------------------------------------------------------------------
(* The clockwork engine *)

numLevels == 8
childRange == <<0, 1>>

Branch(fields) ==
    [level |-> fields.level, x |-> 0, y |-> 0, endX |-> 0, endY |-> 0,
     length |-> fields.length, rotation |-> fields.rotation,
     rotationChange |-> fields.rotationChange, children |-> <<>>]

(* Variants of nextBranchRotation that wrap differently: by the remainder, *)
(* not at all, and at the lower end only.                                  *)
nextBranchRotation_modulo(branch, speed) ==
    (branch.rotation + branch.rotationChange * speed) % (360 * AngleScale)

nextBranchRotation_noReset(branch, speed) ==
    branch.rotation + branch.rotationChange * speed

nextBranchRotation_noUpperReset(branch, speed) ==
    LET next == branch.rotation + branch.rotationChange * speed
    IN  IF next < 0 THEN 360 * AngleScale ELSE next

(* A variant of nextBranchRotation in which deeper branches turn faster *)
nextBranchRotation_byLevel(branch, speed) ==
    LET next == branch.rotation + branch.rotationChange * speed * branch.level
    IN  IF next > 360 * AngleScale THEN 0
        ELSE IF next < 0 THEN 360 * AngleScale
        ELSE next

(* A variant of nextBranchRotation that holds a branch at the end it has   *)
(* passed                                                                  *)
nextBranchRotation_clamps(branch, speed) ==
    LET next == branch.rotation + branch.rotationChange * speed
    IN  IF next > 360 * AngleScale THEN 360 * AngleScale
        ELSE IF next < 0 THEN 0
        ELSE next

nextBranchRotation(branch, speed) ==
    LET next == branch.rotation + branch.rotationChange * speed
    IN  IF next > 360 * AngleScale THEN 0
        ELSE IF next < 0 THEN 360 * AngleScale
        ELSE next

RECURSIVE updateBranch(_, _, _, _)

(* Variants of updateBranch: one scales rotationChange in place, one hands *)
(* the children the branch's origin instead of its end, one computes the   *)
(* end from the rotation the branch had before.                            *)
updateBranch_scalesChange(branch, x, y, speed) ==
    LET length == branch.length
        rotation == nextBranchRotation(branch, speed)
        radian == radians(rotation)
        endX == x + Div(length * MathCos(radian), TrigScale)
        endY == y + Div(length * MathSin(radian), TrigScale)
    IN  [branch EXCEPT
            !.x = x,
            !.y = y,
            !.rotation = rotation,
            !.rotationChange = branch.rotationChange * speed,
            !.endX = endX,
            !.endY = endY,
            !.children = [i \in DOMAIN branch.children |->
                             updateBranch(branch.children[i], endX, endY, speed)]]

updateBranch_childAtOrigin(branch, x, y, speed) ==
    LET length == branch.length
        rotation == nextBranchRotation(branch, speed)
        radian == radians(rotation)
        endX == x + Div(length * MathCos(radian), TrigScale)
        endY == y + Div(length * MathSin(radian), TrigScale)
    IN  [branch EXCEPT
            !.x = x,
            !.y = y,
            !.rotation = rotation,
            !.endX = endX,
            !.endY = endY,
            !.children = [i \in DOMAIN branch.children |->
                             updateBranch(branch.children[i], x, y, speed)]]

updateBranch_staleEnd(branch, x, y, speed) ==
    LET length == branch.length
        rotation == nextBranchRotation(branch, speed)
        radian == radians(branch.rotation)
        endX == x + Div(length * MathCos(radian), TrigScale)
        endY == y + Div(length * MathSin(radian), TrigScale)
    IN  [branch EXCEPT
            !.x = x,
            !.y = y,
            !.rotation = rotation,
            !.endX = endX,
            !.endY = endY,
            !.children = [i \in DOMAIN branch.children |->
                             updateBranch(branch.children[i], endX, endY, speed)]]

(* A variant of updateBranch that turns the children at the speed 1 of the *)
(* build, not at the speed it was given                                    *)
updateBranch_childSpeedOne(branch, x, y, speed) ==
    LET length == branch.length
        rotation == nextBranchRotation(branch, speed)
        radian == radians(rotation)
        endX == x + Div(length * MathCos(radian), TrigScale)
        endY == y + Div(length * MathSin(radian), TrigScale)
    IN  [branch EXCEPT
            !.x = x,
            !.y = y,
            !.rotation = rotation,
            !.endX = endX,
            !.endY = endY,
            !.children = [i \in DOMAIN branch.children |->
                             updateBranch(branch.children[i], endX, endY, 1 * AngleScale)]]

updateBranch(branch, x, y, speed) ==
    LET length == branch.length
        rotation == nextBranchRotation(branch, speed)
        radian == radians(rotation)
        endX == x + Div(length * MathCos(radian), TrigScale)
        endY == y + Div(length * MathSin(radian), TrigScale)
    IN  [branch EXCEPT
            !.x = x,
            !.y = y,
            !.rotation = rotation,
            !.endX = endX,
            !.endY = endY,
            !.children = [i \in DOMAIN branch.children |->
                             updateBranch(branch.children[i], endX, endY, speed)]]

(* makeBranch and addChildren draw from `random`: they take the state of   *)
(* the random source and return it with their result.                      *)
RECURSIVE makeBranch(_, _, _, _, _)
RECURSIVE makeChildren(_, _, _, _, _, _)

(* childRange.map(() => makeBranch(nextLevel, endX, endY, speed)).toList(), *)
(* for the elements of childRange from position i on                        *)
makeChildren(i, nextLevel, x, y, speed, r) ==
    IF i > Len(childRange) THEN [list |-> <<>>, random |-> r]
    ELSE LET c == makeBranch(nextLevel, x, y, speed, r)
             rest == makeChildren(i + 1, nextLevel, x, y, speed, c.random)
         IN  [list |-> <<c.branch>> \o rest.list, random |-> rest.random]

(* A variant of addChildren that stops one level late *)
addChildren_oneLevelLate(branch, speed, r) ==
    IF branch.level > numLevels THEN [branch |-> branch, random |-> r]
    ELSE LET nextLevel == branch.level + 1
             children == makeChildren(1, nextLevel, branch.endX, branch.endY, speed, r)
         IN  [branch |-> [branch EXCEPT !.children = children.list],
              random |-> children.random]

addChildren(branch, speed, r) ==
    IF branch.level >= numLevels THEN [branch |-> branch, random |-> r]
    ELSE LET nextLevel == branch.level + 1
             children == makeChildren(1, nextLevel, branch.endX, branch.endY, speed, r)
         IN  [branch |-> [branch EXCEPT !.children = children.list],
              random |-> children.random]

(* A variant of makeBranch that gives the root a length like any other *)
makeBranch_rootHasLength(level, x, y, speed, r) ==
    LET u == integer(100, 1500, r)
        length == Div(PosScale * u.value, level)
        rot == die(360, u.random)
        chg == die(4, rot.random)
        sgn == pick(<<1, -1>>, chg.random)
        branch == Branch([level |-> level,
                          length |-> length,
                          rotation |-> rot.value * AngleScale,
                          rotationChange |-> chg.value * sgn.value])
    IN  addChildren(updateBranch(branch, x, y, speed), speed, sgn.random)

makeBranch(level, x, y, speed, r) ==
    LET u == IF level = 1 THEN [value |-> 0, random |-> r] ELSE integer(100, 1500, r)
        length == IF level = 1 THEN 0 ELSE Div(PosScale * u.value, level)
        rot == die(360, u.random)
        chg == die(4, rot.random)
        sgn == pick(<<1, -1>>, chg.random)
        branch == Branch([level |-> level,
                          length |-> length,
                          rotation |-> rot.value * AngleScale,
                          rotationChange |-> chg.value * sgn.value])
    IN  addChildren(updateBranch(branch, x, y, speed), speed, sgn.random)

-----------------------------------------------------------------------------
(* Action types and the reducer *)

INIT == "INIT"
NEXT_FRAME == "NEXT_FRAME"
MOVE == "MOVE"

(* action.speed || state.get('speed'): the record [speed |-> v] of the     *)
(* value, or the empty record when the value is undefined.  An operand is  *)
(* falsy when it is missing or 0.                                          *)
SpeedOr(action, st) ==
    IF Has(action, "speed") /\ action.speed # 0 THEN [speed |-> action.speed]
    ELSE IF Has(st, "speed") THEN [speed |-> st.speed]
    ELSE <<>>

(* A variant of the INIT case that builds the tree at the new speed *)
reducerInit_buildsAtSpeed(st, action, win, r) ==
    LET innerWidth == win[1]
        innerHeight == win[2]
        width == 2000 * PosScale
        height == Div(2000 * PosScale * innerHeight, innerWidth)
        newSpeed == SpeedOr(action, st)
        built == makeBranch(1, Div(width, 2), Div(height, 2), newSpeed.speed, r)
    IN  [state |-> MapMerge(MapMerge(st,
                      [windowWidth |-> innerWidth,
                       windowHeight |-> innerHeight,
                       width |-> width,
                       height |-> height,
                       tree |-> built.branch]), newSpeed),
         random |-> built.random]

(* The reducer returns the next state; the INIT case also advances the     *)
(* random source, and reads the window's size.                             *)
reducerInit(st, action, win, r) ==
    LET innerWidth == win[1]
        innerHeight == win[2]
        width == 2000 * PosScale
        height == Div(2000 * PosScale * innerHeight, innerWidth)
        built == makeBranch(1, Div(width, 2), Div(height, 2), 1 * AngleScale, r)
    IN  [state |-> MapMerge(MapMerge(st,
                      [windowWidth |-> innerWidth,
                       windowHeight |-> innerHeight,
                       width |-> width,
                       height |-> height,
                       tree |-> built.branch]), SpeedOr(action, st)),
         random |-> built.random]

(* A variant of the NEXT_FRAME case that roots the tree at the window's    *)
(* centre, not the canvas's                                                *)
reducerNextFrame_windowCentre(st) ==
    LET rootX == Div(st.windowWidth * PosScale, 2)
        rootY == Div(st.windowHeight * PosScale, 2)
        speed == st.speed
    IN  MapSet(st, "tree", updateBranch(st.tree, rootX, rootY, speed))

reducerNextFrame(st) ==
    LET rootX == Div(st.width, 2)
        rootY == Div(st.height, 2)
        speed == st.speed
    IN  MapSet(st, "tree", updateBranch(st.tree, rootX, rootY, speed))

(* A variant of the MOVE case whose factor has no sign *)
reducerMove_unsignedFactor(st, action) ==
    LET xDist == action.x - Div(st.windowWidth, 2)
        yDist == action.y - Div(st.windowHeight, 2)
        dist == Sqrt(xDist * xDist + yDist * yDist)
        factor == Div(st.windowWidth, 3)
    IN  MapSet(st, "speed", Div(dist * AngleScale, factor))

reducerMove(st, action) ==
    LET xDist == action.x - Div(st.windowWidth, 2)
        yDist == action.y - Div(st.windowHeight, 2)
        dist == Sqrt(xDist * xDist + yDist * yDist)
        factor == Div(st.windowWidth, 3) * (IF xDist < 0 THEN -1 ELSE 1)
    IN  MapSet(st, "speed", Div(dist * AngleScale, factor))

(* A variant of the reducer's last line that returns the default state *)
reducerDefault_resets(st, action) == EmptyMap

(* The reducer's last line: an action of any other type returns the state *)
reducerDefault(st, action) == st

-----------------------------------------------------------------------------
(* The program *)

Init ==
    /\ state = EmptyMap
    /\ random \in Seeds
    /\ phase = "created"
    /\ last = <<>>
    /\ ticks = 0
    /\ inits = 0

(* A variant of the script that registers the frame loop and the listeners *)
(* before anything is dispatched                                           *)
Start_listenersFirst ==
    /\ phase = "created"
    /\ phase' = "running"
    /\ UNCHANGED <<state, random, last, ticks, inits>>

(* store.dispatch({type: INIT, speed: 1}), then the rest of the script:    *)
(* the frame loop, the subscription and the listeners are registered.      *)
Start ==
    /\ phase = "created"
    /\ \E win \in Windows :
         LET action == [type |-> INIT, speed |-> 1 * AngleScale]
         IN  \E res \in {reducerInit(state, action, win, random)} :
             /\ state' = res.state
             /\ random' = res.random
             /\ last' = action
    /\ phase' = "running"
    /\ UNCHANGED <<ticks, inits>>

(* nextFrame: store.dispatch({type: NEXT_FRAME}) *)
NextFrame ==
    /\ phase = "running"
    /\ ticks < MaxTicks
    /\ state' = reducerNextFrame(state)
    /\ last' = [type |-> NEXT_FRAME]
    /\ ticks' = ticks + 1
    /\ UNCHANGED <<random, phase, inits>>

(* mousemove: store.dispatch({type: MOVE, x: e.clientX, y: e.clientY}) *)
MouseMove ==
    /\ phase = "running"
    /\ \E d \in PointerOffsets :
         LET action == [type |-> MOVE,
                        x |-> Div(state.windowWidth, 2) + d[1],
                        y |-> Div(state.windowHeight, 2) + d[2]]
         IN  /\ state' = reducerMove(state, action)
             /\ last' = action
    /\ UNCHANGED <<random, phase, ticks, inits>>

(* click: store.dispatch({type: INIT}) *)
Click ==
    /\ phase = "running"
    /\ inits < MaxInits
    /\ \E win \in Windows :
         LET action == [type |-> INIT]
         IN  \E res \in {reducerInit(state, action, win, random)} :
             /\ state' = res.state
             /\ random' = res.random
             /\ last' = action
    /\ inits' = inits + 1
    /\ UNCHANGED <<phase, ticks>>

Next == Start \/ NextFrame \/ MouseMove \/ Click

Spec == Init /\ [][Next]_vars

(* The reducer driven directly: besides the program's own dispatches, an   *)
(* INIT action that carries a speed, for the speeds of SuppliedSpeeds, in  *)
(* a window that has kept its size.  The speeds are 0 and a speed above 90, *)
(* at which rotationChange * speed can exceed 360.                         *)
SuppliedSpeeds == {0, 100 * AngleScale}

InitSupplied ==
    /\ phase = "running"
    /\ inits < MaxInits
    /\ \E s \in SuppliedSpeeds :
         LET action == [type |-> INIT, speed |-> s]
             win == <<state.windowWidth, state.windowHeight>>
         IN  \E res \in {reducerInit(state, action, win, random)} :
             /\ state' = res.state
             /\ random' = res.random
             /\ last' = action
    /\ inits' = inits + 1
    /\ UNCHANGED <<phase, ticks>>

ReducerNext == Start \/ NextFrame \/ MouseMove \/ Click \/ InitSupplied

ReducerSpec == Init /\ [][ReducerNext]_vars

(* The reducer given an action whose type is none of INIT, NEXT_FRAME and  *)
(* MOVE, such as the one redux dispatches to a store to probe its reducer. *)
OtherTypes == {"@@redux/PROBE_UNKNOWN_ACTION"}

DispatchOther ==
    /\ phase = "running"
    /\ \E t \in OtherTypes :
         LET action == [type |-> t]
         IN  /\ state' = reducerDefault(state, action)
             /\ last' = action
    /\ UNCHANGED <<random, phase, ticks, inits>>

AnyActionNext == Start \/ NextFrame \/ MouseMove \/ Click \/ DispatchOther

AnyActionSpec == Init /\ [][AnyActionNext]_vars

(* makeBranch called directly, one call after another on the same random   *)
(* source, at the levels of BuildLevels: the first level, the levels       *)
(* around the last one and levels past it.  state holds the branch         *)
(* returned, as tree; last holds the call's arguments and the state of the *)
(* random source before the call; inits counts the calls.                  *)
MaxBuilds == 3
BuildLevels == {1, numLevels - 1, numLevels, numLevels + 1, numLevels + 2}
BuildSpeeds == {1 * AngleScale, -5}
BuildSeeds == {36, 67}
BUILD == "makeBranch"

BuildInit ==
    /\ state = EmptyMap
    /\ random \in BuildSeeds
    /\ phase = "build"
    /\ last = <<>>
    /\ ticks = 0
    /\ inits = 0

Build ==
    /\ phase = "build"
    /\ inits < MaxBuilds
    /\ \E level \in BuildLevels, speed \in BuildSpeeds :
         LET call == [type |-> BUILD, level |-> level, x |-> 1000 * PosScale,
                      y |-> 500 * PosScale, speed |-> speed, random |-> random]
         IN  \E res \in {makeBranch(call.level, call.x, call.y, call.speed, random)} :
             /\ state' = [tree |-> res.branch]
             /\ random' = res.random
             /\ last' = call
    /\ inits' = inits + 1
    /\ UNCHANGED <<phase, ticks>>

BuildSpec == BuildInit /\ [][Build]_vars

-----------------------------------------------------------------------------
(* Notions the properties are stated with *)

HasTree == Has(state, "tree")

(* The branches of a tree *)
RECURSIVE BranchSet(_)
BranchSet(b) ==
    {b} \cup UNION {BranchSet(b.children[i]) : i \in DOMAIN b.children}

RECURSIVE Depth(_)
RECURSIVE MaxDepth(_, _)
MaxDepth(list, i) ==
    IF i > Len(list) THEN 0
    ELSE LET d == Depth(list[i])
             m == MaxDepth(list, i + 1)
         IN  IF d > m THEN d ELSE m
Depth(b) == 1 + MaxDepth(b.children, 1)

(* A tree with the five geometry fields of every branch blanked *)
RECURSIVE Skeleton(_)
Skeleton(b) ==
    [level |-> b.level, length |-> b.length, rotationChange |-> b.rotationChange,
     children |-> [i \in DOMAIN b.children |-> Skeleton(b.children[i])]]

(* A step that dispatches NEXT_FRAME, and one that dispatches INIT *)
TickStep == ticks' = ticks + 1
InitStep == phase' # phase \/ inits' = inits + 1

-----------------------------------------------------------------------------
(* C1: every tree the state holds has the shape build gives it: the root   *)
(* is at level 1, a branch at level L < numLevels has exactly 2 children,  *)
(* each at level L + 1, a branch at level numLevels has none, and the      *)
(* depth is exactly numLevels.                                             *)
C1_Topology ==
    HasTree =>
        /\ state.tree.level = 1
        /\ Depth(state.tree) = numLevels
        /\ \A b \in BranchSet(state.tree) :
              /\ b.level < numLevels =>
                    /\ Len(b.children) = 2
                    /\ \A i \in 1..Len(b.children) : b.children[i].level = b.level + 1
              /\ b.level = numLevels => Len(b.children) = 0
              /\ b.level <= numLevels

(* a tree built by a click and updated by a tick since *)
C1_Witness == HasTree /\ inits >= 1 /\ ticks >= 1 /\ last.type = NEXT_FRAME

(* C2: a tick leaves level, length, rotationChange and the children count  *)
(* of every branch as they were: the trees before and after agree on       *)
(* everything but x, y, endX, endY and rotation.                           *)
C2_UpdateKeepsSkeleton ==
    [][TickStep => Skeleton(state'.tree) = Skeleton(state.tree)]_vars

(* two updates in a row at a speed that moves every branch *)
C2_Witness ==
    /\ HasTree /\ ticks >= 2 /\ last.type = NEXT_FRAME /\ state.speed # 0
    /\ \E b \in BranchSet(state.tree) : b.length # 0 /\ b.rotation # 0

(* C3: the rotation of every branch after one update is 0 when             *)
(* rotation + rotationChange * speed exceeds 360, 360 when it is below 0,  *)
(* and that sum itself otherwise.                                          *)
RECURSIVE RotationsFollow(_, _, _)
RotationsFollow(old, new, speed) ==
    LET sum == old.rotation + old.rotationChange * speed
    IN  /\ sum > 360 * AngleScale => new.rotation = 0
        /\ sum < 0 => new.rotation = 360 * AngleScale
        /\ (0 <= sum /\ sum <= 360 * AngleScale) => new.rotation = sum
        /\ Len(new.children) = Len(old.children)
        /\ \A i \in 1..Len(old.children) :
              RotationsFollow(old.children[i], new.children[i], speed)

C3_RotationAfterUpdate ==
    [][TickStep => RotationsFollow(state.tree, state'.tree, state.speed)]_vars

(* after a tick, one branch was reset to 0 from above 360, one was reset   *)
(* to 360 from below 0, and one moved without a reset                      *)
C3_Witness ==
    /\ HasTree /\ last.type = NEXT_FRAME
    /\ \E b \in BranchSet(state.tree) :
          b.rotation = 0 /\ b.rotationChange * state.speed > 0
    /\ \E b \in BranchSet(state.tree) :
          b.rotation = 360 * AngleScale /\ b.rotationChange * state.speed < 0
    /\ \E b \in BranchSet(state.tree) :
          0 < b.rotation /\ b.rotation < 360 * AngleScale

(* C4: every child starts where its parent ends: child.x = parent.endX and *)
(* child.y = parent.endY, for every branch of the tree.                    *)
C4_ChildAtParentEnd ==
    HasTree =>
        \A b \in BranchSet(state.tree) :
            \A i \in 1..Len(b.children) :
                b.children[i].x = b.endX /\ b.children[i].y = b.endY

(* after a tick, a branch with children whose end differs from its origin *)
C4_Witness ==
    /\ HasTree /\ ticks >= 1 /\ last.type = NEXT_FRAME /\ state.speed # 0
    /\ \E b \in BranchSet(state.tree) :
          Len(b.children) > 0 /\ b.endX # b.x /\ b.endY # b.y

(* C5: the rotation of every branch is within [0, 360]. *)
C5_RotationInClosedRange ==
    HasTree =>
        \A b \in BranchSet(state.tree) :
            0 <= b.rotation /\ b.rotation <= 360 * AngleScale

(* after a tick, the tree holds a branch at each end of the range *)
C5_Witness ==
    /\ HasTree /\ ticks >= 1 /\ last.type = NEXT_FRAME
    /\ \E b \in BranchSet(state.tree) : b.rotation = 0
    /\ \E b \in BranchSet(state.tree) : b.rotation = 360 * AngleScale

(* C6, as claimed: the rotation of every branch is within [0, 360), so 360 *)
(* is never stored.                                                        *)
C6_RotationHalfOpen ==
    HasTree =>
        \A b \in BranchSet(state.tree) :
            0 <= b.rotation /\ b.rotation < 360 * AngleScale

(* C6, amended: the rotation of every branch is within [0, 360) or is 360  *)
(* itself, the value a reset from below 0 stores.                          *)
C6_RotationHalfOpenOr360 ==
    HasTree =>
        \A b \in BranchSet(state.tree) :
            \/ b.rotation = 360 * AngleScale
            \/ (b.rotation >= 0 /\ b.rotation < 360 * AngleScale)

(* a freshly built tree that holds a branch at 360 *)
C6_Witness ==
    /\ HasTree /\ ticks = 0 /\ last.type = INIT
    /\ \E b \in BranchSet(state.tree) : b.rotation = 360 * AngleScale

(* C7: the end of every branch is the one its own stored origin, length    *)
(* and rotation give: endX = x + length * cos(radians(rotation)) and       *)
(* endY = y + length * sin(radians(rotation)).                             *)
C7_EndFromStoredFields ==
    HasTree =>
        \A b \in BranchSet(state.tree) :
            /\ b.endX = b.x + Div(b.length * MathCos(radians(b.rotation)), TrigScale)
            /\ b.endY = b.y + Div(b.length * MathSin(radians(b.rotation)), TrigScale)

(* after a tick at a speed that turns the branches, a branch of length > 0 *)
C7_Witness ==
    /\ HasTree /\ ticks >= 1 /\ last.type = NEXT_FRAME /\ state.speed # 0
    /\ \E b \in BranchSet(state.tree) : b.length > 0 /\ b.endX # b.x

(* C8: the root has length 0, so its end is its origin, and both level-2   *)
(* branches start at the root's origin.                                    *)
C8_RootIsAPoint ==
    HasTree =>
        /\ state.tree.length = 0
        /\ state.tree.endX = state.tree.x
        /\ state.tree.endY = state.tree.y
        /\ \A i \in 1..Len(state.tree.children) :
              /\ state.tree.children[i].level = 2
              /\ state.tree.children[i].x = state.tree.x
              /\ state.tree.children[i].y = state.tree.y

(* after a tick, a root that has turned away from 0 and has its children *)
C8_Witness ==
    /\ HasTree /\ ticks >= 1 /\ last.type = NEXT_FRAME
    /\ state.tree.rotation # 0 /\ state.tree.rotation # 360 * AngleScale
    /\ Len(state.tree.children) = 2

(* C9, as claimed: an INIT that carries a speed s sets the speed to s, for *)
(* every s, and an INIT that carries none leaves the speed as it was.      *)
C9_InitSetsSpeed ==
    [][InitStep =>
         /\ Has(last', "speed") => state'.speed = last'.speed
         /\ (~Has(last', "speed") /\ Has(state, "speed")) => state'.speed = state.speed]_vars

(* C10: after MOVE(x, y) the speed is, in magnitude, the distance from     *)
(* (x, y) to the window's centre divided by a third of the window's width, *)
(* negative for x left of the centre and positive for x right of it.       *)
C10_MoveSpeed ==
    (HasTree /\ last.type = MOVE) =>
        LET w == state.windowWidth
            h == state.windowHeight
            xd2 == 2 * last.x - w
            yd2 == 2 * last.y - h
        IN  /\ 4 * (state.speed * state.speed) * (w * w)
                 = 9 * (AngleScale * AngleScale) * (xd2 * xd2 + yd2 * yd2)
            /\ 2 * last.x < w => state.speed < 0
            /\ 2 * last.x > w => state.speed > 0

(* a move to a point left of and above the centre *)
C10_Witness ==
    /\ HasTree /\ last.type = MOVE
    /\ 2 * last.x < state.windowWidth /\ 2 * last.y < state.windowHeight
    /\ state.speed < 0

(* C11: a NEXT_FRAME changes nothing of the state but tree, a MOVE changes *)
(* nothing but speed, and an action of any other type changes nothing.     *)
SameBut(key) ==
    /\ DOMAIN state' = DOMAIN state
    /\ \A k \in DOMAIN state \ {key} : state'[k] = state[k]

C11_FrameConditions ==
    [][/\ last'.type = NEXT_FRAME =>
            /\ SameBut("tree")
            /\ \A k \in {"speed", "width", "height", "windowWidth", "windowHeight"} :
                  Has(state', k) /\ state'[k] = state[k]
       /\ last'.type = MOVE =>
            /\ SameBut("speed")
            /\ \A k \in {"tree", "width", "height", "windowWidth", "windowHeight"} :
                  Has(state', k) /\ state'[k] = state[k]
       /\ last'.type \in OtherTypes => state' = state]_vars

(* an action of another type dispatched after a click, a move that changed *)
(* the speed and a tick                                                    *)
C11_Witness ==
    /\ HasTree /\ last.type \in OtherTypes
    /\ inits >= 1 /\ ticks >= 1 /\ state.speed # 1 * AngleScale

(* C12: the root of the tree is at the centre of the canvas the state      *)
(* holds: tree.x = width / 2 and tree.y = height / 2.                      *)
C12_RootAtCanvasCentre ==
    HasTree =>
        /\ 2 * state.tree.x = state.width
        /\ 2 * state.tree.y = state.height

(* a tick after a click, on a canvas that is not square *)
C12_Witness ==
    /\ HasTree /\ inits >= 1 /\ ticks >= 1 /\ last.type = NEXT_FRAME
    /\ state.height # state.width

(* C13: a dispatch runs to its end before the next one starts, and a tick  *)
(* turns every branch at one speed, the speed the state holds when the     *)
(* tick starts: every branch is either advanced by rotationChange * speed  *)
(* or reset because that sum left [0, 360].  The tick leaves the speed as  *)
(* it is and a MOVE leaves the tree as it is, so a MOVE between two ticks  *)
(* turns no branch of the tick before it and every branch of the tick      *)
(* after it.                                                               *)
RECURSIVE AdvancedAt(_, _, _)
AdvancedAt(old, new, speed) ==
    LET step == old.rotationChange * speed
    IN  /\ \/ new.rotation - old.rotation = step
           \/ /\ new.rotation \in {0, 360 * AngleScale}
              /\ (old.rotation + step < 0 \/ old.rotation + step > 360 * AngleScale)
        /\ DOMAIN new.children = DOMAIN old.children
        /\ \A i \in DOMAIN old.children :
              AdvancedAt(old.children[i], new.children[i], speed)

C13_TickAtOneSpeed ==
    [][/\ last'.type = NEXT_FRAME =>
            /\ AdvancedAt(state.tree, state'.tree, state.speed)
            /\ state'.speed = state.speed
       /\ last'.type = MOVE => state'.tree = state.tree]_vars

(* the second tick, at a speed a MOVE has set, with a leaf that moved by   *)
(* its own rotationChange times that speed                                 *)
C13_Witness ==
    /\ HasTree /\ ticks = 2 /\ last.type = NEXT_FRAME
    /\ state.speed # 0 /\ state.speed # 1 * AngleScale
    /\ \E b \in BranchSet(state.tree) :
          /\ b.level = numLevels
          /\ 0 < b.rotation /\ b.rotation < 360 * AngleScale

(* C14: the rotation a tick gives a branch is a function of that branch's  *)
(* own rotation and rotationChange and of the speed alone: any two         *)
(* branches that agree on rotation and rotationChange before the tick,     *)
(* wherever they are in the tree, agree on the rotation after it.          *)
RECURSIVE RotationPairs(_, _)
RotationPairs(old, new) ==
    {<<old.rotation, old.rotationChange, new.rotation>>}
        \cup UNION {RotationPairs(old.children[i], new.children[i]) :
                        i \in DOMAIN old.children}

C14_RotationOfOwnFieldsOnly ==
    [][last'.type = NEXT_FRAME =>
         LET pairs == RotationPairs(state.tree, state'.tree)
         IN  Cardinality({<<p[1], p[2]>> : p \in pairs}) = Cardinality(pairs)]_vars

(* after a tick at a speed that turns the branches, two branches at        *)
(* different levels and origins that hold the same rotation and            *)
(* rotationChange, away from the ends of the range                         *)
C14_Witness ==
    /\ HasTree /\ ticks >= 1 /\ last.type = NEXT_FRAME /\ state.speed # 0
    /\ LET bs == {b \in BranchSet(state.tree) :
                     0 < b.rotation /\ b.rotation < 360 * AngleScale}
       IN  Cardinality({<<b.rotation, b.rotationChange>> : b \in bs})
               < Cardinality({<<b.rotation, b.rotationChange, b.level, b.x, b.y>> : b \in bs})

(* C15: makeBranch called at a level >= numLevels returns one positioned   *)
(* branch without children and makes no further call: it takes the draws   *)
(* of one branch from the random source and no more.  Called at any level  *)
(* >= 1 it returns, with a tree of numLevels - level + 1 levels (of one    *)
(* level from numLevels on) and 2 children under every branch above the    *)
(* last level.                                                             *)
RECURSIVE Size(_)
RECURSIVE SizeOfList(_, _)
SizeOfList(list, i) ==
    IF i > Len(list) THEN 0 ELSE Size(list[i]) + SizeOfList(list, i + 1)
Size(b) == 1 + SizeOfList(b.children, 1)

C15_BuildPastLastLevel ==
    (HasTree /\ last.type = BUILD) =>
        LET levels == IF last.level >= numLevels THEN 1 ELSE numLevels - last.level + 1
        IN  /\ state.tree.level = last.level
            /\ state.tree.x = last.x /\ state.tree.y = last.y
            /\ Depth(state.tree) = levels
            /\ Size(state.tree) = 2 ^ levels - 1
            /\ last.level >= numLevels =>
                  /\ state.tree.children = <<>>
                  /\ random = NextRandom(NextRandom(NextRandom(NextRandom(last.random))))

(* a call at a level past numLevels, after a call that built children *)
C15_Witness ==
    /\ HasTree /\ last.type = BUILD /\ last.level > numLevels
    /\ inits >= 2 /\ state.tree.rotation # 0

(* C16: the first action the store is given is the INIT of the script, and *)
(* every NEXT_FRAME and every MOVE is given to a state that holds a tree,  *)
(* a width and a height, and the window's size and the speed with them.    *)
C16_InitBeforeTicksAndMoves ==
    [][/\ last = <<>> =>
            /\ Has(last', "type") /\ last'.type = INIT
            /\ Has(last', "speed")
            /\ state = EmptyMap
       /\ (Has(last', "type") /\ last'.type \in {NEXT_FRAME, MOVE}) =>
            \A k \in {"tree", "width", "height", "windowWidth", "windowHeight", "speed"} :
                Has(state, k)]_vars

(* a MOVE and a NEXT_FRAME have both been dispatched *)
C16_Witness ==
    /\ phase = "running" /\ ticks >= 1 /\ last.type = MOVE /\ HasTree

(* C17, as claimed: at every speed other than 0, a tick changes the        *)
(* rotation of every branch.                                               *)
RECURSIVE AllTurned(_, _)
AllTurned(old, new) ==
    /\ new.rotation # old.rotation
    /\ \A i \in DOMAIN old.children : AllTurned(old.children[i], new.children[i])

C17_EveryTickTurns ==
    [][(last'.type = NEXT_FRAME /\ state.speed # 0) =>
          AllTurned(state.tree, state'.tree)]_vars

(* C17, amended: at every speed other than 0, a tick changes the rotation  *)
(* of every branch whose step rotationChange * speed is at most 360 in     *)
(* magnitude, as it is for every branch at speeds up to 90.                *)
RECURSIVE TurnedWithinReach(_, _, _)
TurnedWithinReach(old, new, speed) ==
    /\ Abs(old.rotationChange * speed) <= 360 * AngleScale =>
          new.rotation # old.rotation
    /\ \A i \in DOMAIN old.children :
          TurnedWithinReach(old.children[i], new.children[i], speed)

C17_TickTurnsWithinReach ==
    [][(last'.type = NEXT_FRAME /\ state.speed # 0) =>
          TurnedWithinReach(state.tree, state'.tree, state.speed)]_vars

(* after two ticks at speed 100, a branch whose step is within reach and   *)
(* one, held at 0, whose step is not                                       *)
C17_Witness ==
    /\ HasTree /\ ticks = 2 /\ last.type = NEXT_FRAME
    /\ state.speed = 100 * AngleScale
    /\ \E b \in BranchSet(state.tree) :
          Abs(b.rotationChange * state.speed) <= 360 * AngleScale /\ b.rotation # 0
    /\ \E b \in BranchSet(state.tree) :
          b.rotationChange * state.speed > 360 * AngleScale /\ b.rotation = 0

(* C18: the tree an INIT builds does not depend on the speed.  Every INIT  *)
(* step is compared with the INIT of a second run that differs from it in  *)
(* the speed the state holds and in the speed the action carries, if it    *)
(* carries one, and that reads the same window and the same random source: *)
(* both build the same tree and leave the random source in the same state. *)
OtherSpeed == 2 * AngleScale - 1
OtherRun(st, action, win, r) ==
    reducerInit(MapSet(st, "speed", OtherSpeed),
                IF Has(action, "speed") THEN [action EXCEPT !.speed = OtherSpeed] ELSE action,
                win, r)

C18_TreeIndependentOfSpeed ==
    [][last'.type = INIT =>
         \E other \in {OtherRun(state, last',
                                <<state'.windowWidth, state'.windowHeight>>, random)} :
            /\ other.state.speed # state'.speed
            /\ other.state.tree = state'.tree
            /\ other.random = random']_vars

(* a tree built by a click at a speed that a MOVE has set *)
C18_Witness ==
    /\ HasTree /\ last.type = INIT /\ ~Has(last, "speed") /\ inits >= 1
    /\ state.speed # 1 * AngleScale /\ state.speed # 0

=============================================================================
